---- MODULE Spec2Model ----
(***************************************************************************)
(* Model of the two scripts of SBLP_Announcements:                         *)
(*   - email_sender.py        (the mailer),  specification Spec            *)
(*   - curate_mailing_list.py (the curator), specification CuratorSpec     *)
(* The mailer's rows carry atomic string values (the mailer only compares  *)
(* and copies them); the curator's strings are sequences of characters,    *)
(* because it splits them and writes/parses CSV text.                      *)
(***************************************************************************)
EXTENDS Integers, Sequences, FiniteSets, TLC

\* ------------------------------------------------------------------------
\* Bounds
\* ------------------------------------------------------------------------
MaxRows == 3
MaxLen == 3
MaxPasses == 2

\* ------------------------------------------------------------------------
\* Program constants of email_sender.py
\* ------------------------------------------------------------------------
SENDER_ADDR == "fernando@dcc.ufmg.br"
SUBJECT == "Chamada de Trabalhos: SBLP 2026"
SMTP_HOST == "smtp.dcc.ufmg.br"
SMTP_PORT == 587
SLEEP_SECONDS == 2
TARGET_COUNTRY == "br"
PLACEHOLDER == "<FirstName>"

VARIABLES
    \* --- mailer: the environment (files on disk, command line) ---
    csvExists,      \* the CSV path names an existing file
    csvRows,        \* the rows csv.DictReader yields from it
    tplExists,      \* the template path names an existing file
    tplText,        \* its content, as a sequence of text tokens
    dry_run,        \* args.dry_run
    \* --- mailer: the program ---
    pc,             \* position of the run
    data,           \* run_pipeline's data
    template,       \* run_pipeline's template
    pos,            \* index of the next row the lazy filter will pull
    msg,            \* the loop variable msg of send_batch
    session,        \* the smtplib.SMTP object: "none", "open" or "closed"
    exc,            \* the exception in flight ("none" when there is none)
    trace,          \* observable events so far, in order
    now,            \* seconds slept so far
    exitCode        \* -1 while running, else the process's exit status

mvars == <<csvExists, csvRows, tplExists, tplText, dry_run, pc, data, template,
           pos, msg, session, exc, trace, now, exitCode>>

VARIABLES
    \* --- curator: the environment ---
    inExists,       \* the input path names an existing file
    inText,         \* its content, as a sequence of characters
    destination,    \* sys.argv[2]
    pass,           \* how many times the curator has been started
    firstText,      \* what the first pass wrote
    firstRows,      \* the rows the first pass handed to the writer
    \* --- curator: the program ---
    cpc,            \* position of the run
    reader,         \* run_pipeline's reader: the list of row dictionaries
    tmp0,           \* run_pipeline's tmp0: the deduplicated list
    wpos,           \* index of the next row writerows will pull
    handle,         \* out_handle: "unopened", "open" or "closed"
    outText,        \* the characters written to out_handle
    written,        \* the row dictionaries handed to the writer so far
    cexc,           \* the exception in flight ("none" when there is none)
    cexit           \* -1 while running, else the process's exit status

cvars == <<inExists, inText, destination, pass, firstText, firstRows, cpc,
           reader, tmp0, wpos, handle, outText, written, cexc, cexit>>

vars == <<mvars, cvars>>

\* ------------------------------------------------------------------------
\* Mailer: input domains
\* ------------------------------------------------------------------------
AllFields == {"Country", "Email", "FirstName"}
Headers == {AllFields, AllFields \ {"Country"}, AllFields \ {"Email"},
            AllFields \ {"FirstName"}}
Countries == {"br", "BR", "uk"}
Emails == {"a@x.br", "b@y.com"}
FirstNames == {"Ana"}
FullRows == [Country : Countries, Email : Emails, FirstName : FirstNames]
Templates == {<<"Hello ", "<FirstName>", "! ", "<FirstName>">>, <<"Hello">>}
RowSeqs == UNION {[1..n -> FullRows] : n \in 0..MaxRows}

Restrict(r, h) == [f \in h |-> r[f]]

NoMsg == [Subject |-> "", From |-> "", To |-> "", Body |-> <<>>]

Event(e, a) == [ev |-> e, arg |-> a, at |-> now]

\* ------------------------------------------------------------------------
\* Mailer: pure functions
\* ------------------------------------------------------------------------

\* a filter that compares the country without regard to case
RECURSIVE FilterNext_IgnoreCase(_, _)
FilterNext_IgnoreCase(d, p) ==
    IF p > Len(d) THEN [kind |-> "stop", pos |-> p]
    ELSE IF "Country" \notin DOMAIN d[p] THEN [kind |-> "raise", pos |-> p]
    ELSE IF d[p]["Country"] \in {"br", "BR"} THEN [kind |-> "row", pos |-> p]
    ELSE FilterNext_IgnoreCase(d, p + 1)

\* filter_brazilians, pulled lazily: the next row at or after p whose Country
\* is "br"; a row without the key raises KeyError.
RECURSIVE FilterNext(_, _)
FilterNext(d, p) ==
    IF p > Len(d) THEN [kind |-> "stop", pos |-> p]
    ELSE IF "Country" \notin DOMAIN d[p] THEN [kind |-> "raise", pos |-> p]
    ELSE IF d[p]["Country"] = TARGET_COUNTRY THEN [kind |-> "row", pos |-> p]
    ELSE FilterNext(d, p + 1)

\* str.replace on a tokenised text: every occurrence is substituted.
Replace(t, old, new) == [i \in DOMAIN t |-> IF t[i] = old THEN new ELSE t[i]]

\* create_email raises KeyError when the row lacks Email or FirstName.
CreateEmailRaises(row) == ~({"Email", "FirstName"} \subseteq DOMAIN row)

create_email(row, tpl, sender_email) ==
    [Subject |-> SUBJECT,
     From    |-> sender_email,
     To      |-> row["Email"],
     Body    |-> Replace(tpl, PLACEHOLDER, row["FirstName"])]

\* next(email_objs): the map over the filter, pulled once.
NextMessage(d, p, tpl, sender) ==
    LET f == FilterNext(d, p) IN
    IF f.kind = "row"
    THEN IF CreateEmailRaises(d[f.pos])
         THEN [kind |-> "raise", pos |-> f.pos + 1, msg |-> NoMsg]
         ELSE [kind |-> "msg", pos |-> f.pos + 1,
               msg |-> create_email(d[f.pos], tpl, sender)]
    ELSE [kind |-> f.kind, pos |-> f.pos, msg |-> NoMsg]

\* ------------------------------------------------------------------------
\* Mailer: initial states
\* ------------------------------------------------------------------------
MailerInit ==
    /\ csvExists \in BOOLEAN
    /\ tplExists \in BOOLEAN
    /\ dry_run \in BOOLEAN
    /\ \E h \in Headers, s \in RowSeqs :
          /\ (~csvExists) => (s = <<>> /\ h = AllFields)
          /\ csvRows = [i \in DOMAIN s |-> Restrict(s[i], h)]
    /\ \E t \in Templates :
          /\ (~tplExists) => (t = <<"Hello">>)
          /\ tplText = t
    /\ pc = "read_csv"
    /\ data = <<>>
    /\ template = <<>>
    /\ pos = 1
    /\ msg = NoMsg
    /\ session = "none"
    /\ exc = "none"
    /\ trace = <<>>
    /\ now = 0
    /\ exitCode = -1

\* ------------------------------------------------------------------------
\* Mailer: run_pipeline
\* ------------------------------------------------------------------------

\* read_csv_data: FileNotFoundError -> diagnostic, sys.exit(1)
ReadCsvData ==
    /\ pc = "read_csv"
    /\ IF csvExists
       THEN /\ data' = csvRows
            /\ pc' = "read_template"
            /\ UNCHANGED <<trace, exitCode>>
       ELSE /\ trace' = trace \o <<Event("stderr", <<"Error: not found">>),
                                   Event("exit", <<"1">>)>>
            /\ pc' = "Failed"
            /\ exitCode' = 1
            /\ UNCHANGED data
    /\ UNCHANGED cvars
    /\ UNCHANGED <<csvExists, csvRows, tplExists, tplText, dry_run, template,
                   pos, msg, session, exc, now>>

\* read_template: FileNotFoundError -> diagnostic, sys.exit(1)
ReadTemplate ==
    /\ pc = "read_template"
    /\ IF tplExists
       THEN /\ template' = tplText
            /\ pc' = "prompt"
            /\ UNCHANGED <<trace, exitCode>>
       ELSE /\ trace' = trace \o <<Event("stderr", <<"Error: not found">>),
                                   Event("exit", <<"1">>)>>
            /\ pc' = "Failed"
            /\ exitCode' = 1
            /\ UNCHANGED template
    /\ UNCHANGED cvars
    /\ UNCHANGED <<csvExists, csvRows, tplExists, tplText, dry_run, data,
                   pos, msg, session, exc, now>>

\* a run_pipeline that asks for the password in either mode
GetPass_Always ==
    /\ pc = "prompt"
    /\ trace' = Append(trace, Event("prompt", <<SENDER_ADDR>>))
    /\ pc' = "Idle"
    /\ UNCHANGED cvars
    /\ UNCHANGED <<csvExists, csvRows, tplExists, tplText, dry_run, data,
                   template, pos, msg, session, exc, now, exitCode>>

\* pwd = None if dry_run else getpass.getpass(...); filter and map are lazy,
\* so no row has been looked at yet.
GetPass ==
    /\ pc = "prompt"
    /\ trace' = IF dry_run THEN trace
                ELSE Append(trace, Event("prompt", <<SENDER_ADDR>>))
    /\ pc' = "Idle"
    /\ UNCHANGED cvars
    /\ UNCHANGED <<csvExists, csvRows, tplExists, tplText, dry_run, data,
                   template, pos, msg, session, exc, now, exitCode>>

\* ------------------------------------------------------------------------
\* Mailer: send_batch
\* ------------------------------------------------------------------------

\* if dry_run: print the banner / else: enter the try block
SendBatchEnter ==
    /\ pc = "Idle"
    /\ IF dry_run
       THEN /\ trace' = Append(trace, Event("stdout", <<"--- DRY RUN MODE ACTIVE ---">>))
            /\ pc' = "Reporting"
       ELSE /\ pc' = "Connecting"
            /\ UNCHANGED trace
    /\ UNCHANGED cvars
    /\ UNCHANGED <<csvExists, csvRows, tplExists, tplText, dry_run, data,
                   template, pos, msg, session, exc, now, exitCode>>

\* for msg in messages: print(TO | SUBJ); an exception raised while pulling a
\* message is not caught anywhere in dry-run mode.
DryRunStep ==
    /\ pc = "Reporting"
    /\ LET n == NextMessage(data, pos, template, SENDER_ADDR) IN
       /\ pos' = n.pos
       /\ \/ /\ n.kind = "msg"
             /\ msg' = n.msg
             /\ trace' = Append(trace,
                    Event("stdout", <<"TO:", n.msg.To, "SUBJ:", n.msg.Subject>>))
             /\ UNCHANGED <<pc, exitCode>>
          \/ /\ n.kind = "stop"
             /\ pc' = "Done"
             /\ exitCode' = 0
             /\ UNCHANGED <<msg, trace>>
          \/ /\ n.kind = "raise"
             /\ pc' = "Crashed"
             /\ exitCode' = 1
             /\ trace' = Append(trace, Event("stderr", <<"Traceback: KeyError">>))
             /\ UNCHANGED msg
    /\ UNCHANGED cvars
    /\ UNCHANGED <<csvExists, csvRows, tplExists, tplText, dry_run, data,
                   template, session, exc, now>>

\* smtplib.SMTP(host, 587): connects, or raises before the with block is entered
Connect ==
    /\ pc = "Connecting"
    /\ \/ /\ session' = "open"
          /\ trace' = Append(trace, Event("connect", <<SMTP_HOST, ToString(SMTP_PORT)>>))
          /\ pc' = "Connected"
          /\ UNCHANGED exc
       \/ /\ exc' = "connect_error"
          /\ pc' = "Handler"
          /\ UNCHANGED <<session, trace>>
    /\ UNCHANGED cvars
    /\ UNCHANGED <<csvExists, csvRows, tplExists, tplText, dry_run, data,
                   template, pos, msg, now, exitCode>>

\* server.starttls()
StartTls ==
    /\ pc = "Connected"
    /\ \/ /\ trace' = Append(trace, Event("starttls", <<>>))
          /\ pc' = "TlsUp"
          /\ UNCHANGED exc
       \/ /\ exc' = "starttls_error"
          /\ pc' = "Unwind"
          /\ UNCHANGED trace
    /\ UNCHANGED cvars
    /\ UNCHANGED <<csvExists, csvRows, tplExists, tplText, dry_run, data,
                   template, pos, msg, session, now, exitCode>>

\* server.login(user, password)
Login ==
    /\ pc = "TlsUp"
    /\ \/ /\ trace' = Append(trace, Event("login", <<SENDER_ADDR>>))
          /\ pc' = "Authenticated"
          /\ UNCHANGED exc
       \/ /\ exc' \in {"auth", "login_error"}
          /\ pc' = "Unwind"
          /\ UNCHANGED trace
    /\ UNCHANGED cvars
    /\ UNCHANGED <<csvExists, csvRows, tplExists, tplText, dry_run, data,
                   template, pos, msg, session, now, exitCode>>

\* for msg in messages: the loop head pulls the next message lazily
LoopHead ==
    /\ pc = "Authenticated"
    /\ LET n == NextMessage(data, pos, template, SENDER_ADDR) IN
       /\ pos' = n.pos
       /\ \/ /\ n.kind = "msg"
             /\ msg' = n.msg
             /\ pc' = "Sending"
             /\ UNCHANGED exc
          \/ /\ n.kind = "stop"
             /\ pc' = "Closing"
             /\ UNCHANGED <<msg, exc>>
          \/ /\ n.kind = "raise"
             /\ exc' = "KeyError"
             /\ pc' = "Unwind"
             /\ UNCHANGED msg
    /\ UNCHANGED cvars
    /\ UNCHANGED <<csvExists, csvRows, tplExists, tplText, dry_run, data,
                   template, session, trace, now, exitCode>>

\* a loop that logs a failed transmission and goes on with the next message
SendMessage_Continue ==
    /\ pc = "Sending"
    /\ \/ /\ trace' = Append(trace, Event("send", <<msg.To>>))
          /\ pc' = "Confirm"
          /\ UNCHANGED exc
       \/ /\ exc' = "send_error"
          /\ pc' = "Authenticated"
          /\ UNCHANGED trace
    /\ UNCHANGED cvars
    /\ UNCHANGED <<csvExists, csvRows, tplExists, tplText, dry_run, data,
                   template, pos, msg, session, now, exitCode>>

\* server.send_message(msg)
SendMessage ==
    /\ pc = "Sending"
    /\ \/ /\ trace' = Append(trace, Event("send", <<msg.To>>))
          /\ pc' = "Confirm"
          /\ UNCHANGED exc
       \/ /\ exc' = "send_error"
          /\ pc' = "Unwind"
          /\ UNCHANGED trace
    /\ UNCHANGED cvars
    /\ UNCHANGED <<csvExists, csvRows, tplExists, tplText, dry_run, data,
                   template, pos, msg, session, now, exitCode>>

\* print(f"Sent to: {msg['To']}")
PrintSent ==
    /\ pc = "Confirm"
    /\ trace' = Append(trace, Event("stdout", <<"Sent to:", msg.To>>))
    /\ pc' = "Pause"
    /\ UNCHANGED cvars
    /\ UNCHANGED <<csvExists, csvRows, tplExists, tplText, dry_run, data,
                   template, pos, msg, session, exc, now, exitCode>>

\* a loop without the pause
Sleep_Skipped ==
    /\ pc = "Pause"
    /\ pc' = "Authenticated"
    /\ UNCHANGED cvars
    /\ UNCHANGED <<csvExists, csvRows, tplExists, tplText, dry_run, data,
                   template, pos, msg, session, exc, trace, now, exitCode>>

\* time.sleep(2)
Sleep ==
    /\ pc = "Pause"
    /\ now' = now + SLEEP_SECONDS
    /\ trace' = Append(trace, Event("sleep", <<>>))
    /\ pc' = "Authenticated"
    /\ UNCHANGED cvars
    /\ UNCHANGED <<csvExists, csvRows, tplExists, tplText, dry_run, data,
                   template, pos, msg, session, exc, exitCode>>

\* the with statement's exit on the normal path (smtplib closes the socket
\* whatever the server answers to QUIT); send_batch and the script return
WithExitNormal ==
    /\ pc = "Closing"
    /\ session' = "closed"
    /\ trace' = Append(trace, Event("close", <<>>))
    /\ pc' = "Done"
    /\ exitCode' = 0
    /\ UNCHANGED cvars
    /\ UNCHANGED <<csvExists, csvRows, tplExists, tplText, dry_run, data,
                   template, pos, msg, exc, now>>

\* a session that is not scoped: an exception leaves it open
WithExitRaise_NoClose ==
    /\ pc = "Unwind"
    /\ pc' = "Handler"
    /\ UNCHANGED cvars
    /\ UNCHANGED <<csvExists, csvRows, tplExists, tplText, dry_run, data,
                   template, pos, msg, session, exc, trace, now, exitCode>>

\* the with statement's exit while an exception propagates to the except clauses
WithExitRaise ==
    /\ pc = "Unwind"
    /\ session' = "closed"
    /\ trace' = Append(trace, Event("close", <<>>))
    /\ pc' = "Handler"
    /\ UNCHANGED cvars
    /\ UNCHANGED <<csvExists, csvRows, tplExists, tplText, dry_run, data,
                   template, pos, msg, exc, now, exitCode>>

\* a handler without the clause for SMTPAuthenticationError
Diagnostic_Generic(e) == <<"An unexpected error occurred:", e>>

\* except SMTPAuthenticationError / except Exception: diagnostic, sys.exit(1)
Diagnostic(e) ==
    IF e = "auth" THEN <<"Invalid password">>
    ELSE <<"An unexpected error occurred:", e>>

ExceptHandler ==
    /\ pc = "Handler"
    /\ trace' = trace \o <<Event("stderr", Diagnostic(exc)), Event("exit", <<"1">>)>>
    /\ pc' = "Failed"
    /\ exitCode' = 1
    /\ UNCHANGED cvars
    /\ UNCHANGED <<csvExists, csvRows, tplExists, tplText, dry_run, data,
                   template, pos, msg, session, exc, now>>

Next ==
    \/ ReadCsvData
    \/ ReadTemplate
    \/ GetPass
    \/ SendBatchEnter
    \/ DryRunStep
    \/ Connect
    \/ StartTls
    \/ Login
    \/ LoopHead
    \/ SendMessage
    \/ PrintSent
    \/ Sleep
    \/ WithExitNormal
    \/ WithExitRaise
    \/ ExceptHandler


\* ------------------------------------------------------------------------
\* Curator: strings are sequences of characters
\* ------------------------------------------------------------------------
K_Nome == <<"N", "o", "m", "e">>
K_FirstName == <<"F", "i", "r", "s", "t", "N", "a", "m", "e">>
K_Surname == <<"S", "u", "r", "n", "a", "m", "e">>
K_Email == <<"E", "m", "a", "i", "l">>
K_Country == <<"C", "o", "u", "n", "t", "r", "y">>
K_Extra == <<"D", "e", "p", "t">>
fieldnames == <<K_Nome, K_FirstName, K_Surname, K_Email, K_Country>>
FALLBACK == <<"b", "r">>

\* DictReader's restval and restkey: the value None of a column a short
\* record does not reach, and the key None that collects what a long record
\* holds beyond the columns
NONE == <<"<None>">>
RESTKEY == <<"<None-key>">>

Range(f) == {f[i] : i \in DOMAIN f}
Strs(A, n) == UNION {[1..k -> A] : k \in 0..n}

\* {**row, k: v}
Put(row, k, v) == [x \in DOMAIN row \cup {k} |-> IF x = k THEN v ELSE row[x]]

\* index of the first / last occurrence of character c in s, 0 if none
FirstIndex(s, c) ==
    IF \E i \in DOMAIN s : s[i] = c
    THEN CHOOSE i \in DOMAIN s : s[i] = c /\ \A j \in 1..(i - 1) : s[j] # c
    ELSE 0

LastIndex(s, c) ==
    IF \E i \in DOMAIN s : s[i] = c
    THEN CHOOSE i \in DOMAIN s : s[i] = c /\ \A j \in (i + 1)..Len(s) : s[j] # c
    ELSE 0

\* ------------------------------------------------------------------------
\* Curator: transformation functions
\* ------------------------------------------------------------------------

\* a dict that keeps the first value stored under a key
DictPut_KeepFirst(m, k, v) ==
    IF \E i \in DOMAIN m : m[i][1] = k THEN m ELSE Append(m, <<k, v>>)

\* a dict that moves an overwritten key to the end
DictPut_MoveToEnd(m, k, v) ==
    Append(SelectSeq(m, LAMBDA e : e[1] # k), <<k, v>>)

\* d[k] = v on an insertion-ordered dict, kept as a sequence of <<key, value>>:
\* an existing key keeps its position and gets the new value.
DictPut(m, k, v) ==
    IF \E i \in DOMAIN m : m[i][1] = k
    THEN [i \in DOMAIN m |-> IF m[i][1] = k THEN <<k, v>> ELSE m[i]]
    ELSE Append(m, <<k, v>>)

\* {row['Email']: row for row in data}
RECURSIVE DictByEmail(_, _)
DictByEmail(d, m) ==
    IF d = <<>> THEN m
    ELSE DictByEmail(Tail(d), DictPut(m, Head(d)[K_Email], Head(d)))

\* list({...}.values())
remove_duplicates(d) ==
    LET m == DictByEmail(d, <<>>) IN [i \in DOMAIN m |-> m[i][2]]

\* split_names.transform: row['Nome'].split(' ', 1)
split_names_transform(row) ==
    LET nome == row[K_Nome]
        sp == FirstIndex(nome, " ")
        first == IF sp = 0 THEN nome ELSE SubSeq(nome, 1, sp - 1)
        rest == IF sp = 0 THEN <<>> ELSE SubSeq(nome, sp + 1, Len(nome))
    IN Put(Put(row, K_FirstName, first), K_Surname, rest)

\* what the two transforms raise on a row: row['Nome'] of split_names comes
\* first, and None has no split
TransformRaises(row) ==
    IF K_Nome \notin DOMAIN row THEN "KeyError"
    ELSE IF row[K_Nome] = NONE THEN "AttributeError"
    ELSE IF row[K_Email] = NONE THEN "AttributeError"
    ELSE "none"

\* find_country_names.transform: row['Email'].split('.')[-1]
find_country_transform(row) ==
    LET email == row[K_Email]
        tld == SubSeq(email, LastIndex(email, ".") + 1, Len(email))
        country == IF Len(tld) = 2 THEN tld ELSE FALLBACK
    IN Put(row, K_Country, country)

\* ------------------------------------------------------------------------
\* Curator: csv.DictWriter (excel dialect, minimal quoting, "\r\n")
\* ------------------------------------------------------------------------
NeedsQuote(f) == \E i \in DOMAIN f : f[i] \in {",", "\"", "\r", "\n"}

RECURSIVE DoubleQuotes(_)
DoubleQuotes(f) ==
    IF f = <<>> THEN <<>>
    ELSE (IF Head(f) = "\"" THEN <<"\"", "\"">> ELSE <<Head(f)>>)
         \o DoubleQuotes(Tail(f))

\* a writer that never quotes
WriteField_Unquoted(f) == f

WriteField(f) ==
    IF NeedsQuote(f) THEN <<"\"">> \o DoubleQuotes(f) \o <<"\"">> ELSE f

RECURSIVE JoinFields(_)
JoinFields(fs) ==
    IF fs = <<>> THEN <<>>
    ELSE IF Len(fs) = 1 THEN WriteField(fs[1])
    ELSE WriteField(fs[1]) \o <<",">> \o JoinFields(Tail(fs))

WriteLine(fs) ==
    (IF Len(fs) = 1 /\ fs[1] = <<>> THEN <<"\"", "\"">> ELSE JoinFields(fs))
    \o <<"\r", "\n">>

\* DictWriter._dict_to_list with extrasaction='raise'
HasWrongFields(row) == DOMAIN row \ Range(fieldnames) # {}

dict_to_list(row) ==
    [i \in DOMAIN fieldnames |->
        IF fieldnames[i] \in DOMAIN row THEN row[fieldnames[i]] ELSE <<>>]

\* ------------------------------------------------------------------------
\* Curator: open(..., 'r') and csv.DictReader
\* ------------------------------------------------------------------------

\* text mode with universal newlines: "\r\n" and "\r" are read as "\n"
UniversalNewlines(t) ==
    LET n == Len(t)
        pairs == [i \in 1..n |-> <<t[i], IF i < n THEN t[i + 1] ELSE "">>]
        kept == SelectSeq(pairs, LAMBDA p : ~(p[1] = "\r" /\ p[2] = "\n"))
    IN [i \in DOMAIN kept |-> IF kept[i][1] = "\r" THEN "\n" ELSE kept[i][1]]

\* iterating the file: the lines of t, each with its "\n"; a last line without
\* one is a line too
FileLines(t) ==
    LET n == Len(t)
        ends == SelectSeq([i \in 1..n |-> i], LAMBDA i : t[i] = "\n")
        m == Len(ends)
        whole == [k \in 1..m |->
                    SubSeq(t, IF k = 1 THEN 1 ELSE ends[k - 1] + 1, ends[k])]
        last == IF m = 0 THEN 0 ELSE ends[m]
    IN IF last < n THEN Append(whole, SubSeq(t, last + 1, n)) ELSE whole

\* the csv reader's character automaton (non-strict excel dialect):
\* st is the parser state, fld the field and row the record being read,
\* rows the records completed so far, i the position in the current line.
ParseStep(s, c) ==
    IF s.st = "START_RECORD" /\ c = "\n"
    THEN [s EXCEPT !.rows = Append(s.rows, <<>>)]
    ELSE IF s.st \in {"START_RECORD", "START_FIELD"}
    THEN IF c = "\n"
         THEN [s EXCEPT !.st = "START_RECORD", !.fld = <<>>, !.row = <<>>,
                        !.rows = Append(s.rows, Append(s.row, <<>>))]
         ELSE IF c = "\""
         THEN [s EXCEPT !.st = "IN_QUOTED_FIELD", !.fld = <<>>]
         ELSE IF c = ","
         THEN [s EXCEPT !.st = "START_FIELD", !.fld = <<>>,
                        !.row = Append(s.row, <<>>)]
         ELSE [s EXCEPT !.st = "IN_FIELD", !.fld = <<c>>]
    ELSE IF s.st = "IN_FIELD"
    THEN IF c = "\n"
         THEN [s EXCEPT !.st = "START_RECORD", !.fld = <<>>, !.row = <<>>,
                        !.rows = Append(s.rows, Append(s.row, s.fld))]
         ELSE IF c = ","
         THEN [s EXCEPT !.st = "START_FIELD", !.fld = <<>>,
                        !.row = Append(s.row, s.fld)]
         ELSE [s EXCEPT !.fld = Append(s.fld, c)]
    ELSE IF s.st = "IN_QUOTED_FIELD"
    THEN IF c = "\""
         THEN [s EXCEPT !.st = "QUOTE_IN_QUOTED_FIELD"]
         ELSE [s EXCEPT !.fld = Append(s.fld, c)]
    ELSE \* QUOTE_IN_QUOTED_FIELD
         IF c = "\""
         THEN [s EXCEPT !.st = "IN_QUOTED_FIELD", !.fld = Append(s.fld, c)]
         ELSE IF c = ","
         THEN [s EXCEPT !.st = "START_FIELD", !.fld = <<>>,
                        !.row = Append(s.row, s.fld)]
         ELSE IF c = "\n"
         THEN [s EXCEPT !.st = "START_RECORD", !.fld = <<>>, !.row = <<>>,
                        !.rows = Append(s.rows, Append(s.row, s.fld))]
         ELSE [s EXCEPT !.st = "IN_FIELD", !.fld = Append(s.fld, c)]

\* one line is fed to the automaton character by character, from s.i on
RECURSIVE ParseLine(_, _)
ParseLine(line, s) ==
    IF s.i > Len(line) THEN s
    ELSE ParseLine(line, [ParseStep(s, line[s.i]) EXCEPT !.i = s.i + 1])

RECURSIVE ParseLines(_, _, _)
ParseLines(ls, k, s) ==
    IF k > Len(ls) THEN s
    ELSE ParseLines(ls, k + 1, ParseLine(ls[k], [s EXCEPT !.i = 1]))

\* csv.reader over the lines of a file; a last record without a newline is kept
csv_reader(ls) ==
    LET s == ParseLines(ls, 1, [i |-> 1, st |-> "START_RECORD", fld |-> <<>>,
                                row |-> <<>>, rows |-> <<>>])
    IN IF s.st = "START_RECORD" THEN s.rows
       ELSE Append(s.rows, Append(s.row, s.fld))

\* list(csv.DictReader(f)): the first record names the columns, blank records
\* are skipped, the others are zipped with the column names.
DictReader(ls) ==
    LET recs == csv_reader(ls) IN
    IF recs = <<>> THEN <<>>
    ELSE LET names == recs[1]
             body == SelectSeq(Tail(recs), LAMBDA r : r # <<>>)
             keys == {names[j] : j \in DOMAIN names}
             Col(k) == CHOOSE j \in DOMAIN names :
                          names[j] = k /\ \A l \in (j + 1)..Len(names) : names[l] # k
             Zip(r) == [k \in keys \cup (IF Len(r) > Len(names) THEN {RESTKEY} ELSE {}) |->
                          IF k \notin keys THEN <<"<list>">>
                          ELSE IF Col(k) <= Len(r) THEN r[Col(k)] ELSE NONE]
         IN [i \in DOMAIN body |-> Zip(body[i])]

read_input_file(t) == DictReader(FileLines(UniversalNewlines(t)))

\* destination.lower() in ('-', 'stdout')
Lower(d) == IF d = "StdOut" THEN "stdout" ELSE d
IsStdout(d) == Lower(d) \in {"-", "stdout"}

\* ------------------------------------------------------------------------
\* Curator: input domains
\* ------------------------------------------------------------------------
NomeChars == {"A", " ", ",", "\""}
EmailChars == {"a", "."}
InputHeaders == {<<K_Nome, K_Email>>, <<K_Email, K_Extra, K_Nome>>}
Destinations == {"out.csv", "StdOut"}

Contact(nome, email) ==
    [k \in {K_Nome, K_Email, K_Extra} |->
        IF k = K_Nome THEN nome ELSE IF k = K_Email THEN email ELSE <<"X">>]

SampleContacts ==
    { Contact(<<"A", "n", "a">>, <<"a", "@", "b", ".", "u", "k">>),
      Contact(<<"A", "n", "a", " ", "B", " ", "C">>, <<"a", "@", "b", ".", "u", "k">>),
      Contact(<<"B", "i", "a", " ", "D">>, <<"c", "@", "d", ".", "c", "o", "m">>),
      Contact(<<"B", "i", "a", ",", " ", "D">>, <<"c", "@", "d", ".", "c", "o", "m">>),
      Contact(<<>>, <<"e", "@", "f">>),
      Contact(<<"\"", "Q", "\"", " ", "R">>, <<"g", "@", "h", ".", "B", "R">>),
      Contact(<<"E", "v", "a", "\n", "F">>, <<"i", "@", "j">>) }

ShortContacts ==
    {Contact(n, e) : n \in Strs(NomeChars, MaxLen), e \in Strs(EmailChars, MaxLen)}

\* the contact lists the input file may hold: up to MaxRows sample contacts,
\* or one contact with any short Nome and Email
ContactLists ==
    (UNION {[1..n -> SampleContacts] : n \in 0..MaxRows})
    \cup {<<c>> : c \in ShortContacts}

\* the CSV export the input file comes from: fields holding a comma, a quote
\* or a line break are quoted, quotes are doubled, records end in "\r\n"
RECURSIVE ExportField(_)
ExportField(f) ==
    IF f = <<>> THEN <<>>
    ELSE (IF Head(f) = "\"" THEN <<"\"", "\"">> ELSE <<Head(f)>>)
         \o ExportField(Tail(f))

RECURSIVE ExportRecord(_)
ExportRecord(fs) ==
    IF fs = <<>> THEN <<"\r", "\n">>
    ELSE (IF \E i \in DOMAIN fs[1] : fs[1][i] \in {",", "\"", "\r", "\n"}
          THEN <<"\"">> \o ExportField(fs[1]) \o <<"\"">>
          ELSE fs[1])
         \o (IF Len(fs) > 1 THEN <<",">> ELSE <<>>) \o ExportRecord(Tail(fs))

RECURSIVE ExportRows(_, _)
ExportRows(h, cs) ==
    IF cs = <<>> THEN <<>>
    ELSE ExportRecord([i \in DOMAIN h |-> Head(cs)[h[i]]]) \o ExportRows(h, Tail(cs))

ExportCsv(h, cs) == ExportRecord(h) \o ExportRows(h, cs)

\* ------------------------------------------------------------------------
\* Curator: initial states
\* ------------------------------------------------------------------------
CuratorStart ==
    /\ cpc = "read"
    /\ reader = <<>>
    /\ tmp0 = <<>>
    /\ wpos = 1
    /\ handle = "unopened"
    /\ outText = <<>>
    /\ written = <<>>
    /\ cexc = "none"
    /\ cexit = -1

CuratorInit ==
    /\ inExists \in BOOLEAN
    /\ \E h \in InputHeaders, cs \in ContactLists :
          /\ (~inExists) => (cs = <<>> /\ h = <<K_Nome, K_Email>>)
          /\ inText = ExportCsv(h, cs)
    /\ destination \in Destinations
    /\ pass = 1
    /\ firstText = <<>>
    /\ firstRows = <<>>
    /\ CuratorStart

\* ------------------------------------------------------------------------
\* Curator: run_pipeline
\* ------------------------------------------------------------------------

\* read_input_file: FileNotFoundError -> diagnostic, sys.exit(1)
ReadInputFile ==
    /\ cpc = "read"
    /\ IF inExists
       THEN /\ reader' = read_input_file(inText)
            /\ cpc' = "dedup"
            /\ UNCHANGED cexit
       ELSE /\ cpc' = "Failed"
            /\ cexit' = 1
            /\ UNCHANGED reader
    /\ UNCHANGED <<inExists, inText, destination, pass, firstText, firstRows,
                   tmp0, wpos, handle, outText, written, cexc>>
    /\ UNCHANGED mvars

\* tmp0 = remove_duplicates(reader), which raises KeyError on a row without
\* Email; split_names and find_country_names only build lazy maps.
RemoveDuplicates ==
    /\ cpc = "dedup"
    /\ IF \E i \in DOMAIN reader : K_Email \notin DOMAIN reader[i]
       THEN /\ cexc' = "KeyError"
            /\ cpc' = "Crashed"
            /\ cexit' = 1
            /\ UNCHANGED tmp0
       ELSE /\ tmp0' = remove_duplicates(reader)
            /\ cpc' = "open"
            /\ UNCHANGED <<cexc, cexit>>
    /\ UNCHANGED <<inExists, inText, destination, pass, firstText, firstRows,
                   reader, wpos, handle, outText, written>>
    /\ UNCHANGED mvars

\* print_output_file: pick the handle, writer.writeheader()
OpenAndWriteHeader ==
    /\ cpc = "open"
    /\ handle' = "open"
    /\ outText' = WriteLine(fieldnames)
    /\ cpc' = "write"
    /\ UNCHANGED <<inExists, inText, destination, pass, firstText, firstRows,
                   reader, tmp0, wpos, written, cexc, cexit>>
    /\ UNCHANGED mvars

\* writer.writerows(data): pull one row through the two maps and write it;
\* a transform may raise, and a row with a key outside fieldnames raises
\* ValueError in the writer.
WriteRow ==
    /\ cpc = "write"
    /\ IF wpos > Len(tmp0)
       THEN /\ cpc' = "finally"
            /\ UNCHANGED <<wpos, outText, written, cexc>>
       ELSE IF TransformRaises(tmp0[wpos]) # "none"
            THEN /\ cexc' = TransformRaises(tmp0[wpos])
                 /\ cpc' = "finally"
                 /\ wpos' = wpos + 1
                 /\ UNCHANGED <<outText, written>>
            ELSE LET row == find_country_transform(split_names_transform(tmp0[wpos])) IN
                 IF HasWrongFields(row)
                 THEN /\ cexc' = "ValueError"
                      /\ cpc' = "finally"
                      /\ wpos' = wpos + 1
                      /\ UNCHANGED <<outText, written>>
                 ELSE /\ outText' = outText \o WriteLine(dict_to_list(row))
                      /\ written' = Append(written, row)
                      /\ wpos' = wpos + 1
                      /\ UNCHANGED <<cpc, cexc>>
    /\ UNCHANGED <<inExists, inText, destination, pass, firstText, firstRows,
                   reader, tmp0, handle, cexit>>
    /\ UNCHANGED mvars

\* finally: close the handle unless it is sys.stdout; then return, or let the
\* exception end the process.
Finally ==
    /\ cpc = "finally"
    /\ handle' = IF IsStdout(destination) THEN handle ELSE "closed"
    /\ IF cexc = "none"
       THEN cpc' = "Done" /\ cexit' = 0
       ELSE cpc' = "Crashed" /\ cexit' = 1
    /\ UNCHANGED <<inExists, inText, destination, pass, firstText, firstRows,
                   reader, tmp0, wpos, outText, written, cexc>>
    /\ UNCHANGED mvars

\* the operator runs the curator again on what it wrote
Recurate ==
    /\ cpc = "Done"
    /\ cexit = 0
    /\ pass < MaxPasses
    /\ pass' = pass + 1
    /\ inText' = outText
    /\ firstText' = IF pass = 1 THEN outText ELSE firstText
    /\ firstRows' = IF pass = 1 THEN written ELSE firstRows
    /\ cpc' = "read"
    /\ reader' = <<>>
    /\ tmp0' = <<>>
    /\ wpos' = 1
    /\ handle' = "unopened"
    /\ outText' = <<>>
    /\ written' = <<>>
    /\ UNCHANGED <<inExists, destination, cexc, cexit>>
    /\ UNCHANGED mvars

CuratorNext ==
    \/ ReadInputFile
    \/ RemoveDuplicates
    \/ OpenAndWriteHeader
    \/ WriteRow
    \/ Finally
    \/ Recurate

\* ------------------------------------------------------------------------
\* Specifications: each script runs alone, the other one is not started
\* ------------------------------------------------------------------------
MailerIdle ==
    /\ csvExists = FALSE /\ csvRows = <<>> /\ tplExists = FALSE
    /\ tplText = <<>> /\ dry_run = FALSE /\ pc = "off" /\ data = <<>>
    /\ template = <<>> /\ pos = 1 /\ msg = NoMsg /\ session = "none"
    /\ exc = "none" /\ trace = <<>> /\ now = 0 /\ exitCode = -1

CuratorIdle ==
    /\ inExists = FALSE /\ inText = <<>> /\ destination = "out.csv"
    /\ pass = 0 /\ firstText = <<>> /\ firstRows = <<>> /\ cpc = "off"
    /\ reader = <<>> /\ tmp0 = <<>> /\ wpos = 1 /\ handle = "unopened"
    /\ outText = <<>> /\ written = <<>> /\ cexc = "none" /\ cexit = -1

Init == MailerInit /\ CuratorIdle

CuratorSpecInit == CuratorInit /\ MailerIdle

CuratorSpec == CuratorSpecInit /\ [][CuratorNext]_vars

Spec == Init /\ [][Next]_vars

\* ------------------------------------------------------------------------
\* Mailer: what an observer sees in the trace
\* ------------------------------------------------------------------------
EvIdx(e) == {k \in DOMAIN trace : trace[k].ev = e}

IsLine(x, prefix) == x.ev = "stdout" /\ Len(x.arg) >= 2 /\ x.arg[1] = prefix

\* recipients of the messages transmitted so far, in order
SentTo ==
    LET s == SelectSeq(trace, LAMBDA x : x.ev = "send")
    IN [i \in DOMAIN s |-> s[i].arg[1]]

\* recipients of the "Sent to:" confirmations printed so far, in order
ConfirmedTo ==
    LET s == SelectSeq(trace, LAMBDA x : IsLine(x, "Sent to:"))
    IN [i \in DOMAIN s |-> s[i].arg[2]]

\* recipients of the dry-run lines printed so far, in order
ReportedTo ==
    LET s == SelectSeq(trace, LAMBDA x : IsLine(x, "TO:"))
    IN [i \in DOMAIN s |-> s[i].arg[2]]

\* the rows of the CSV whose Country is exactly "br", in CSV order
Qualifying == SelectSeq(csvRows,
                  LAMBDA r : "Country" \in DOMAIN r /\ r["Country"] = "br")

\* a row on which filtering or rendering raises KeyError
RowRaises(r) ==
    \/ "Country" \notin DOMAIN r
    \/ r["Country"] = "br" /\ ~({"Email", "FirstName"} \subseteq DOMAIN r)

SomeRowRaises == \E i \in DOMAIN csvRows : RowRaises(csvRows[i])

IsPrefixOfQualifying(tos) ==
    /\ Len(tos) <= Len(Qualifying)
    /\ \A i \in DOMAIN tos :
          /\ "Email" \in DOMAIN Qualifying[i]
          /\ tos[i] = Qualifying[i]["Email"]

LiveStates == {"Connecting", "Connected", "TlsUp", "Authenticated", "Sending",
               "Confirm", "Pause", "Closing", "Unwind", "Handler"}
ErrorPath == {"Unwind", "Handler", "Failed"}
Terminal == {"Done", "Failed", "Crashed"}

\* ------------------------------------------------------------------------
\* C1
\* ------------------------------------------------------------------------

\* C1: when login fails with an authentication error (live mode), no message
\* has been or is ever transmitted, the run only moves towards Failed, and
\* once it has ended it is in Failed with exit code 1 and "Invalid password"
\* on the error stream.
C1_AuthFailureSendsNothing ==
    exc = "auth" =>
        /\ ~dry_run
        /\ EvIdx("send") = {}
        /\ pc \in ErrorPath
        /\ (exitCode # -1 => pc = "Failed" /\ exitCode = 1)
        /\ (pc = "Failed" =>
               \E k \in EvIdx("stderr") : trace[k].arg = <<"Invalid password">>)

C1_Witness ==
    /\ exc = "auth"
    /\ pc = "Failed"
    /\ Len(Qualifying) >= 2
    /\ ~SomeRowRaises

\* ------------------------------------------------------------------------
\* C2
\* ------------------------------------------------------------------------
C2_Inv ==
    exc = "send_error" =>
        LET k == Len(SentTo) IN
        /\ IsPrefixOfQualifying(SentTo)
        /\ k < Len(Qualifying)
        /\ msg.To = Qualifying[k + 1]["Email"]
        /\ ConfirmedTo = SentTo
        /\ pc \in ErrorPath
        /\ (exitCode # -1 => pc = "Failed" /\ exitCode = 1)

C2_Step ==
    /\ (exc = "none" /\ exc' # "none") =>
           (pc' \in {"Unwind", "Handler"} /\ trace' = trace)
    /\ (exc # "none") =>
           (exc' = exc /\ pc' \in ErrorPath /\ SentTo' = SentTo
            /\ (pc = "Unwind" => pc' = "Handler")
            /\ (pc = "Handler" => pc' = "Failed"))

\* C2: when transmitting the i-th message fails, exactly messages 1..i-1 have
\* been transmitted and confirmed, in batch order; from any error on, the run
\* goes straight to Failed (exit code 1): it never transmits again and never
\* returns to Connecting, Authenticated or Sending.
C2_FailFastNoResume == []C2_Inv /\ [][C2_Step]_vars

C2_Witness ==
    /\ exc = "send_error"
    /\ pc = "Failed"
    /\ Len(SentTo) = 1
    /\ Len(Qualifying) = 3

\* ------------------------------------------------------------------------
\* C3
\* ------------------------------------------------------------------------
DryRunQuiet ==
    /\ EvIdx("prompt") = {}
    /\ EvIdx("connect") = {} /\ EvIdx("starttls") = {}
    /\ EvIdx("login") = {} /\ EvIdx("send") = {}
    /\ session = "none"
    /\ pc \notin LiveStates

\* C3 as stated: every dry run over an existing CSV and template ends in Done
\* with exit code 0.
C3_Original ==
    (dry_run /\ csvExists /\ tplExists) =>
        /\ DryRunQuiet
        /\ IsPrefixOfQualifying(ReportedTo)
        /\ (exitCode # -1 =>
               /\ pc = "Done" /\ exitCode = 0
               /\ Len(ReportedTo) = Len(Qualifying))

\* C3 (amended): a dry run over an existing CSV and template never prompts and
\* never opens a connection; if no row raises while it is filtered and
\* rendered, the run prints one line per message and ends in Done with exit
\* code 0; otherwise it ends with the uncaught exception and exit code 1.
C3_DryRun ==
    (dry_run /\ csvExists /\ tplExists) =>
        /\ DryRunQuiet
        /\ IsPrefixOfQualifying(ReportedTo)
        /\ (exitCode # -1 =>
               IF SomeRowRaises
               THEN pc = "Crashed" /\ exitCode = 1
               ELSE /\ pc = "Done" /\ exitCode = 0
                    /\ Len(ReportedTo) = Len(Qualifying))

C3_Witness ==
    /\ dry_run
    /\ pc = "Done"
    /\ Len(ReportedTo) = 2
    /\ Len(csvRows) = 3

\* ------------------------------------------------------------------------
\* C4
\* ------------------------------------------------------------------------

\* C4: the SMTP session is open only inside the with block; no terminal state
\* is reached with it open, and once a connection was made, the diagnostic
\* and the exit come after the session was closed.
C4_SessionClosed ==
    /\ (session = "open" => pc \in LiveStates \ {"Connecting", "Handler"})
    /\ (pc \in Terminal => session # "open")
    /\ (pc \in {"Done", "Failed"} /\ EvIdx("connect") # {} => session = "closed")
    /\ \A k \in EvIdx("stderr") \cup EvIdx("exit") :
          (\E c \in EvIdx("connect") : c < k) =>
              (\E j \in EvIdx("close") : j < k)

C4_Witness ==
    /\ pc = "Failed"
    /\ exc = "send_error"
    /\ session = "closed"

\* ------------------------------------------------------------------------
\* C6
\* ------------------------------------------------------------------------
Recipients == IF dry_run THEN ReportedTo ELSE SentTo

\* C6: the recipients reported (dry run) or transmitted (live) are, at every
\* moment, the Emails of the first rows whose Country is exactly "br", in CSV
\* order; a run that ends in Done has handled every such row, once.
C6_OnlyBrInOrder ==
    /\ IsPrefixOfQualifying(Recipients)
    /\ (dry_run => SentTo = <<>>)
    /\ (~dry_run => ReportedTo = <<>>)
    /\ (pc = "Done" => Len(Recipients) = Len(Qualifying))

C6_Witness ==
    /\ pc = "Done"
    /\ Len(Recipients) = 2
    /\ Recipients[1] # Recipients[2]
    /\ \E i \in DOMAIN csvRows : csvRows[i]["Country"] = "BR"

\* ------------------------------------------------------------------------
\* C9
\* ------------------------------------------------------------------------

\* C9: every transmission comes after the login; between two consecutive
\* transmissions lie, in this order, the confirmation of the first and one
\* pause, and the second is 2 seconds later than the first.
C9_TransmitPrintPause ==
    /\ \A k \in EvIdx("send") : \E j \in EvIdx("login") : j < k
    /\ \A k, l \in EvIdx("send") :
          (k < l /\ \A m \in EvIdx("send") : ~(k < m /\ m < l)) =>
              /\ l = k + 3
              /\ trace[k + 1].ev = "stdout"
              /\ trace[k + 1].arg = <<"Sent to:", trace[k].arg[1]>>
              /\ trace[k + 2].ev = "sleep"
              /\ trace[l].at = trace[k].at + 2

C9_Witness ==
    /\ pc = "Done"
    /\ Len(SentTo) = 3

\* ------------------------------------------------------------------------
\* Curator: helpers of the claims
\* ------------------------------------------------------------------------
AfterDedup == {"open", "write", "finally", "Done", "Crashed"}
Deduplicated == cpc \in AfterDedup /\ cexc # "KeyError"

EmailOf(r) == r[K_Email]

FirstOcc(e) == CHOOSE i \in DOMAIN reader :
                  EmailOf(reader[i]) = e /\ \A j \in 1..(i - 1) : EmailOf(reader[j]) # e

LastOcc(e) == CHOOSE i \in DOMAIN reader :
                 EmailOf(reader[i]) = e /\ \A j \in (i + 1)..Len(reader) : EmailOf(reader[j]) # e

\* ------------------------------------------------------------------------
\* C5
\* ------------------------------------------------------------------------

\* C5: remove_duplicates returns exactly one row for each Email of its input
\* and nothing else, each equal in every field to the last input row with
\* that Email; the Emails the curator writes are pairwise distinct.
C5_OneRowPerEmailLastWins ==
    Deduplicated =>
        /\ \A i \in DOMAIN reader :
              Cardinality({j \in DOMAIN tmp0 : EmailOf(tmp0[j]) = EmailOf(reader[i])}) = 1
        /\ \A j \in DOMAIN tmp0 :
              /\ \E i \in DOMAIN reader : EmailOf(reader[i]) = EmailOf(tmp0[j])
              /\ tmp0[j] = reader[LastOcc(EmailOf(tmp0[j]))]
        /\ \A i, j \in DOMAIN written :
              i # j => EmailOf(written[i]) # EmailOf(written[j])

C5_Witness ==
    /\ cpc = "Done"
    /\ Len(reader) = 3
    /\ Len(tmp0) = 2
    /\ Len(written) = 2
    /\ \E i, j \in DOMAIN reader :
          i < j /\ EmailOf(reader[i]) = EmailOf(reader[j]) /\ reader[i] # reader[j]

\* ------------------------------------------------------------------------
\* C10
\* ------------------------------------------------------------------------

\* C10: the rows of remove_duplicates stand in the order in which their
\* Emails first occur in the input, and the row at each position is the last
\* input row with that Email.
C10_FirstSeenOrder ==
    Deduplicated =>
        /\ \A j, k \in DOMAIN tmp0 :
              j < k => FirstOcc(EmailOf(tmp0[j])) < FirstOcc(EmailOf(tmp0[k]))
        /\ \A j \in DOMAIN tmp0 :
              \A i \in DOMAIN reader :
                 (EmailOf(reader[i]) = EmailOf(tmp0[j])
                  /\ \A l \in (i + 1)..Len(reader) : EmailOf(reader[l]) # EmailOf(reader[i]))
                 => tmp0[j] = reader[i]

C10_Witness ==
    /\ cpc = "Done"
    /\ Len(reader) = 3
    /\ EmailOf(reader[1]) = EmailOf(reader[3])
    /\ EmailOf(reader[1]) # EmailOf(reader[2])
    /\ reader[1] # reader[3]
    /\ tmp0 = <<reader[3], reader[2]>>

\* ------------------------------------------------------------------------
\* C7
\* ------------------------------------------------------------------------

\* C7: a later pass of the curator over its own output ends normally and
\* writes the same rows, in the same order and with the same five values,
\* as the first pass did: the text it writes is the text it read.
C7_Idempotent ==
    pass >= 2 =>
        /\ cpc \notin {"Failed", "Crashed"}
        /\ cexc = "none"
        /\ (cpc = "Done" =>
               /\ written = firstRows
               /\ outText = firstText
               /\ outText = inText)

C7_Witness ==
    /\ pass = 2
    /\ cpc = "Done"
    /\ Len(written) = 2
    /\ \E i \in DOMAIN written : FirstIndex(written[i][K_Nome], ",") # 0
    /\ \E i \in DOMAIN written : FirstIndex(written[i][K_Nome], "\n") # 0

\* ------------------------------------------------------------------------
\* C8
\* ------------------------------------------------------------------------
HasExtraColumn == \E i \in DOMAIN reader : K_Extra \in DOMAIN reader[i]

\* C8: a run over an input with a column besides Nome and Email ends
\* normally, having written every deduplicated row with exactly the five
\* output columns.
C8_ExtraColumnsIgnored ==
    (HasExtraColumn /\ cexit # -1) =>
        /\ cpc = "Done"
        /\ cexit = 0
        /\ Len(written) = Len(tmp0)
        /\ Len(FileLines(UniversalNewlines(outText))) >= 1 + Len(tmp0)

====
